---------------------------- MODULE Spec2Model ----------------------------
(***************************************************************************)
(* Model of xtralien (src/src/xtralien/__init__.py): the Device dispatch   *)
(* pipeline (synchronous and asynchronous), its transport failure handling *)
(* and close, the response formatters and the CommandBuilder.              *)
(*                                                                         *)
(* Text is a sequence of one-character strings.  A Python value is a record*)
(* [kind, rows]: kind names the Python type, rows holds its content as a   *)
(* sequence of rows of texts (a scalar is one row with one text).          *)
(***************************************************************************)
EXTENDS Integers, Sequences, FiniteSets, TLC

(***************************************************************************)
(* Text helpers (str.strip, str.split, float, re.fullmatch).               *)
(***************************************************************************)
Digit == {"0", "1", "2", "3", "4", "5", "6", "7", "8", "9"}

\* the characters of '\n[];' (lines 50, 54, 64) and '\n;[]' (line 90)
FrameChars == {"\n", "[", "]", ";"}

RECURSIVE LStrip(_, _)
LStrip(x, chars) ==
    IF x # <<>> /\ Head(x) \in chars THEN LStrip(Tail(x), chars) ELSE x

RECURSIVE RStrip(_, _)
RStrip(x, chars) ==
    IF x # <<>> /\ x[Len(x)] \in chars
    THEN RStrip(SubSeq(x, 1, Len(x) - 1), chars)
    ELSE x

\* str.strip(chars)
Strip(x, chars) == RStrip(LStrip(x, chars), chars)

\* str.split(sep) for a one-character sep: always at least one piece
RECURSIVE SplitAcc(_, _, _)
SplitAcc(x, sep, cur) ==
    IF x = <<>> THEN <<cur>>
    ELSE IF Head(x) = sep THEN <<cur>> \o SplitAcc(Tail(x), sep, <<>>)
    ELSE SplitAcc(Tail(x), sep, Append(cur, Head(x)))

Split(x, sep) == SplitAcc(x, sep, <<>>)

\* positions reachable from a position of I by reading the one character c
Lit(s, I, c) == {i + 1 : i \in {k \in I : k <= Len(s) /\ s[k] = c}}

\* positions reachable from a position of I by reading one or more digits
Digits(s, I) ==
    {j \in 2..(Len(s) + 1) :
        \E i \in I : i < j /\ \A k \in i..(j - 1) : s[k] \in Digit}

\* number_regex (line 72): (\-|\+)?[0-9]+(\.[0-9]+)?(e-?[0-9]+(\.[0-9]+)?)?
NumberEnds(s, I) ==
    LET sgn  == I \cup Lit(s, I, "-") \cup Lit(s, I, "+")
        int  == Digits(s, sgn)
        frac == int \cup Digits(s, Lit(s, int, "."))
        e1   == Lit(s, frac, "e")
        e2   == e1 \cup Lit(s, e1, "-")
        e3   == Digits(s, e2)
        e4   == e3 \cup Digits(s, Lit(s, e3, "."))
    IN  frac \cup e4

\* one repetition of the group of re_array: {number}(;?)
ArrayItem(s, I) == LET n == NumberEnds(s, I) IN n \cup Lit(s, n, ";")

\* one repetition of the group of re_matrix: {number},{number}(;?)
MatrixItem(s, I) ==
    LET n == NumberEnds(s, Lit(s, NumberEnds(s, I), ","))
    IN  n \cup Lit(s, n, ";")

RECURSIVE ArrayPlus(_, _)
ArrayPlus(s, I) ==
    LET J == I \cup ArrayItem(s, I) IN IF J = I THEN I ELSE ArrayPlus(s, J)

RECURSIVE MatrixPlus(_, _)
MatrixPlus(s, I) ==
    LET J == I \cup MatrixItem(s, I) IN IF J = I THEN I ELSE MatrixPlus(s, J)

\* the end of a pattern followed by \n? reaches the end of the text
FullEnd(s, I) == (Len(s) + 1) \in (I \cup Lit(s, I, "\n"))

\* re_number.fullmatch (line 77)
re_number(s) == FullEnd(s, NumberEnds(s, {1}))

\* re_array.fullmatch (line 76)
re_array(s) ==
    FullEnd(s, Lit(s, ArrayPlus(s, ArrayItem(s, Lit(s, {1}, "["))), "]"))

\* re_matrix.fullmatch (lines 73-75)
re_matrix(s) ==
    FullEnd(s, Lit(s, MatrixPlus(s, MatrixItem(s, Lit(s, {1}, "["))), "]"))

\* whether float(x) parses, for text over the characters the model uses:
\* surrounding whitespace is ignored, then [sign](digits[.[digits]] | .digits)
\* [e[sign]digits]
FloatOk(x) ==
    LET s    == Strip(x, {"\n", " "})
        sgn  == {1} \cup Lit(s, {1}, "-") \cup Lit(s, {1}, "+")
        int  == Digits(s, sgn)
        dot  == Lit(s, int, ".")
        man  == int \cup dot \cup Digits(s, dot) \cup Digits(s, Lit(s, sgn, "."))
        e1   == Lit(s, man, "e")
        e2   == e1 \cup Lit(s, e1, "-") \cup Lit(s, e1, "+")
    IN  (Len(s) + 1) \in (man \cup Digits(s, e2))

(***************************************************************************)
(* Python values and the formatters (lines 49-106).                        *)
(***************************************************************************)
None == [kind |-> "None", rows |-> <<>>]
PyStr(x) == [kind |-> "str", rows |-> <<<<x>>>>]
PyFloat(x) == [kind |-> "float", rows |-> <<<<Strip(x, {"\n", " "})>>>>]
PyList(kind, rows) == [kind |-> kind, rows |-> rows]
Raise(name) == [kind |-> "raise", rows |-> <<<<<<name>>>>>>]
IsRaise(v) == v.kind = "raise"
ExcName(v) == v.rows[1][1][1]

\* [float(y) for y in fields]: the floats, or the ValueError of the first bad one
FloatAll(fields) == \A k \in 1..Len(fields) : FloatOk(fields[k])
FloatRow(fields) == [k \in 1..Len(fields) |-> Strip(fields[k], {"\n", " "})]

process_strip(x) ==
    IF x = None THEN Raise("AttributeError")
    ELSE PyStr(Strip(x.rows[1][1], FrameChars))

process_array(x) ==
    IF x = None THEN Raise("AttributeError")
    ELSE LET fields == Split(Strip(x.rows[1][1], FrameChars), ";")
         IN  IF FloatAll(fields) THEN PyList("array", <<FloatRow(fields)>>)
             ELSE Raise("ValueError")

process_matrix(x) ==
    IF x = None THEN Raise("AttributeError")
    ELSE LET rws == Split(Strip(x.rows[1][1], FrameChars), ";")
             fld == [k \in 1..Len(rws) |-> Split(rws[k], ",")]
         IN  IF \A k \in 1..Len(rws) : FloatAll(fld[k])
             THEN PyList("matrix", [k \in 1..Len(rws) |-> FloatRow(fld[k])])
             ELSE Raise("ValueError")

process_number(x) ==
    IF x = None THEN Raise("TypeError")
    ELSE IF FloatOk(x.rows[1][1]) THEN PyFloat(x.rows[1][1])
    ELSE Raise("ValueError")

process_none(x) == x

process_auto(x) ==
    IF x = None THEN x
    ELSE LET s == x.rows[1][1] IN
         IF re_matrix(s) THEN process_matrix(x)
         ELSE IF re_array(s) THEN process_array(x)
         ELSE IF re_number(s) THEN process_number(x)
         ELSE IF \E k \in 1..Len(s) : s[k] = "\n"
              THEN LET split_string == Split(Strip(s, FrameChars), "\n")
                   IN  IF Len(split_string) < 2 THEN PyStr(split_string[1])
                       ELSE PyList("list", <<split_string>>)
         ELSE x

_default_formatter(x) == x

\* the registry Device.formatters and its lookup with a default (line 239)
Formats == {"strip", "array", "matrix", "number", "none", "auto"}

Formatter(format, x) ==
    CASE format = "strip"  -> process_strip(x)
      [] format = "array"  -> process_array(x)
      [] format = "matrix" -> process_matrix(x)
      [] format = "number" -> process_number(x)
      [] format = "none"   -> process_none(x)
      [] format = "auto"   -> process_auto(x)
      [] OTHER             -> _default_formatter(x)

(***************************************************************************)
(* Command tokens: text or integers, and their str() and ' '.join (236).   *)
(***************************************************************************)
TextTok(s) == [kind |-> "str", s |-> s, n |-> 0]
IntTok(n) == [kind |-> "int", s |-> <<>>, n |-> n]

DigitOf == <<"0", "1", "2", "3", "4", "5", "6", "7", "8", "9">>

\* str(n) of an integer
RECURSIVE NatStr(_)
NatStr(n) ==
    IF n < 10 THEN <<DigitOf[n + 1]>>
    ELSE NatStr(n \div 10) \o <<DigitOf[(n % 10) + 1]>>

IntStr(n) == IF n < 0 THEN <<"-">> \o NatStr(0 - n) ELSE NatStr(n)

\* str(x)
Str(x) == IF x.kind = "int" THEN IntStr(x.n) ELSE x.s

\* ' '.join(str(x) for x in args)
RECURSIVE Join(_)
Join(args) ==
    IF args = <<>> THEN <<>>
    ELSE IF Len(args) = 1 THEN Str(args[1])
    ELSE Str(args[1]) \o <<" ">> \o Join(Tail(args))

(***************************************************************************)
(* The Device (lines 98-256), its transports and its worker pool.          *)
(***************************************************************************)
\* threads that invoke the Device, and the worker threads of its pool
Callers == {"c1", "c2"}
CallerOrder == <<"c1", "c2">>
Workers == {"w1", "w2"}
WorkerOrder == <<"w1", "w2">>
Threads == Callers \cup Workers

\* the Connection objects that exist, in the order in which they are created;
\* a Device holds those handed to it in `connections`
Transports == {"A", "B"}
TransportOrder == <<"A", "B">>

\* bounds of the model: invocations of the Device, and calls of close
MaxCalls == 2
MaxCloses == 1

\* the positional arguments of an invocation of the Device models
Commands == {<<TextTok(<<"g", "o">>)>>}

\* response texts a transport's read may return
RawResps == {<<"1", ".", "5">>, <<"o", "k", "\n">>}

\* the keyword arguments of an invocation (lines 229-233)
Options == [response : BOOLEAN, callback : BOOLEAN, spawn : BOOLEAN]

\* one choice of them for each path through __call__: synchronous with and
\* without a response, a task with and without one, a task with a callback
PathOptions ==
    {o \in Options : o.callback => (o.response /\ ~o.spawn)}

\* what conn.write may raise on an open transport (socket.send, lines 399-402;
\* serial write with write_timeout, lines 437-442), and conn.read (recv, 387)
WriteErrors == {"ConnectionResetError", "BrokenPipeError", "timeout"}
ReadErrors == {"ConnectionResetError"}

\* `except ConnectionError` (line 156): the builtin subclasses of
\* ConnectionError; socket.timeout and OSError are not among them
IsConnectionError(e) ==
    e \in {"ConnectionError", "ConnectionResetError", "BrokenPipeError",
           "ConnectionAbortedError", "ConnectionRefusedError"}

VARIABLES
    connections,   \* Device.connections: the ordered list of transports
    added,         \* transports that were handed to add_connection
    closes,        \* per transport, the number of close() calls it received
    lock,          \* Device._in_progress_lock: its holder, or "none"
    queue,         \* the pool's work queue: submitted tasks not yet started
    shutdown,      \* the pool was shut down
    inv,           \* the invocations of the Device, by number
    ncalls,        \* invocations made so far
    ncloses,       \* calls of close made so far
    pc,            \* per thread, its position
    cur,           \* per thread, the invocation it executes (0: none)
    it,            \* per thread inside close, the list iterator's index
    snap           \* per thread inside close, the transports listed at its call

dvars == <<connections, added, closes, lock, queue, shutdown, inv, ncalls,
           ncloses, pc, cur, it, snap>>

\* an invocation: its arguments, and what it did so far.  st is the state of
\* the call or of its future; conn the transport it wrote to; wrote and reads
\* the transport operations it performed (the text of each write, the wait
\* flag of each read);
\* logged: the error of line 162 was logged; err: the exception its transport
\* raised; raw: what command returned; val:
\* the value returned or the exception raised; registered: the done-callback
\* is in the future's list; cbBy: the threads that ran the user's callback;
\* cbArg: the argument it was given
NoInv ==
    [st |-> "unused", thread |-> "none", args |-> <<>>, command |-> <<>>,
     format |-> "auto",
     response |-> TRUE, callback |-> FALSE, spawn |-> FALSE,
     returns |-> TRUE, conn |-> "none", wrote |-> <<>>, reads |-> <<>>,
     logged |-> FALSE, err |-> "none", raw |-> None, val |-> None,
     registered |-> FALSE,
     cbBy |-> <<>>, cbArg |-> None]

\* line 243: spawn_thread or callback
IsAsync(i) == inv[i].spawn \/ inv[i].callback

\* a handler that closes the transport and leaves it in the list
RemoveNothing(s, x) == s

\* list.remove(x): drops the first occurrence
RECURSIVE Remove(_, _)
Remove(s, x) ==
    IF s = <<>> THEN <<>>
    ELSE IF Head(s) = x THEN Tail(s)
    ELSE <<Head(s)>> \o Remove(Tail(s), x)

InList(s, x) == \E k \in 1..Len(s) : s[k] = x

\* Device.in_progress (lines 140-142)
in_progress == lock # "none"

\* Device.__init__ (lines 108-126): zero or one transport from the arguments
DeviceInit ==
    /\ connections \in {<<>>, <<TransportOrder[1]>>}
    /\ added = {connections[k] : k \in 1..Len(connections)}
    /\ closes = [t \in Transports |-> 0]
    /\ lock = "none"
    /\ queue = <<>>
    /\ shutdown = FALSE
    /\ inv = [i \in 1..MaxCalls |-> NoInv]
    /\ ncalls = 0
    /\ ncloses = 0
    /\ pc = [th \in Threads |-> "idle"]
    /\ cur = [th \in Threads |-> 0]
    /\ it = [th \in Threads |-> 0]
    /\ snap = [th \in Threads |-> {}]

\* Device.add_connection (lines 144-145), given the next transport created
add_connection(th, t) ==
    /\ pc[th] = "idle"
    /\ t \notin added
    /\ \A k \in 1..Len(TransportOrder) :
          \/ TransportOrder[k] \in added
          \/ \E j \in 1..k : TransportOrder[j] = t
    /\ connections' = Append(connections, t)
    /\ added' = added \cup {t}
    /\ UNCHANGED <<closes, lock, queue, shutdown, inv, ncalls, ncloses, pc,
                   cur, it, snap>>

\* Device.__call__, lines 235-241: returns and the formatter it selects
Returns(response, callback) == response \/ callback

SelectFormatter(format, response, callback) ==
    IF Returns(response, callback) THEN format ELSE "default"

NewInv(th, args, format, response, callback, spawn) ==
    [NoInv EXCEPT !.thread = th, !.args = args, !.command = Join(args),
                  !.format = format,
                  !.response = response, !.callback = callback,
                  !.spawn = spawn,
                  !.returns = Returns(response, callback)]

\* the worker pool accepts a task (line 244): submit raises RuntimeError once
\* the pool was shut down
PoolAccepts == ~shutdown

\* Device.__call__ (lines 227-252) up to the submit (line 244) or the `with`
\* (line 249)
Call(th, args, format, response, callback, spawn, maxcalls) ==
    LET i == ncalls + 1
        n == NewInv(th, args, format, response, callback, spawn)
    IN  /\ pc[th] = "idle"
        /\ ncalls < maxcalls
        /\ ncalls' = i
        /\ IF spawn \/ callback
           THEN IF ~PoolAccepts
                THEN /\ inv' = [inv EXCEPT ![i] =
                                   [n EXCEPT !.st = "raised",
                                             !.val = Raise("RuntimeError")]]
                     /\ cur' = [cur EXCEPT ![th] = i]
                     /\ pc' = [pc EXCEPT ![th] = "ret"]
                     /\ UNCHANGED queue
                ELSE /\ inv' = [inv EXCEPT ![i] = [n EXCEPT !.st = "pending"]]
                     /\ queue' = Append(queue, i)
                     /\ cur' = [cur EXCEPT ![th] = IF callback THEN i ELSE 0]
                     /\ pc' = [pc EXCEPT ![th] =
                                  IF callback THEN "addcb" ELSE "idle"]
           ELSE /\ inv' = [inv EXCEPT ![i] = [n EXCEPT !.st = "running"]]
                /\ cur' = [cur EXCEPT ![th] = i]
                /\ pc' = [pc EXCEPT ![th] = "acq"]
                /\ UNCHANGED queue
        /\ UNCHANGED <<connections, added, closes, lock, shutdown, ncloses,
                       it, snap>>

\* a done callback that calls the user's callback whatever the future holds
RunDoneCallbackAlways(r, th) ==
    [r EXCEPT !.cbBy = Append(@, th), !.cbArg = r.val]

\* the done-callback of line 246, lambda fut: callback(fut.result()), run by
\* thread th: the user's callback runs only if result() does not raise
RunDoneCallback(r, th) ==
    IF r.st = "returned"
    THEN [r EXCEPT !.cbBy = Append(@, th), !.cbArg = r.val]
    ELSE r

FutureDone(r) == r.st \in {"returned", "raised", "cancelled"}

\* future.add_done_callback (lines 245-247): on a future that is done the
\* callback is called at once, by the calling thread
AddDoneCallback(th) ==
    LET i == cur[th] IN
    /\ pc[th] = "addcb"
    /\ inv' = [inv EXCEPT ![i] =
                  IF FutureDone(inv[i]) THEN RunDoneCallback(inv[i], th)
                  ELSE [inv[i] EXCEPT !.registered = TRUE]]
    /\ pc' = [pc EXCEPT ![th] = "idle"]
    /\ cur' = [cur EXCEPT ![th] = 0]
    /\ UNCHANGED <<connections, added, closes, lock, queue, shutdown, ncalls,
                   ncloses, it, snap>>

\* a pool worker takes the next task and marks its future running, then
\* enters Device._async_call (line 254); idle workers are interchangeable, so
\* the first idle one is the one that takes it
Pickup(w) ==
    /\ pc[w] = "idle"
    /\ \A k \in 1..Len(WorkerOrder) :
          \/ pc[WorkerOrder[k]] # "idle"
          \/ \E j \in 1..k : WorkerOrder[j] = w
    /\ queue # <<>>
    /\ queue' = Tail(queue)
    /\ cur' = [cur EXCEPT ![w] = Head(queue)]
    /\ inv' = [inv EXCEPT ![Head(queue)].st = "running"]
    /\ pc' = [pc EXCEPT ![w] = "acq"]
    /\ UNCHANGED <<connections, added, closes, lock, shutdown, ncalls,
                   ncloses, it, snap>>
\* an asynchronous path that does not take the in-flight lock
LockFreeForWorkers(th) == th \in Workers \/ lock = "none"

\* `with self._in_progress_lock` (lines 249 and 255): the lock must be free
LockFree(th) == lock = "none"

Acquire(th) ==
    /\ pc[th] = "acq"
    /\ LockFree(th)
    /\ lock' = th
    /\ pc' = [pc EXCEPT ![th] = "write"]
    /\ UNCHANGED <<connections, added, closes, queue, shutdown, inv, ncalls,
                   ncloses, cur, it, snap>>

\* the `returns` argument of self.command: line 251 passes returns, line 256
\* passes True
ReadWait(r) == IF r.spawn \/ r.callback THEN TRUE ELSE r.returns

\* where an exception raised inside Device.command goes (lines 156-160)
AfterError(e) == IF IsConnectionError(e) THEN "hclose" ELSE "unwind"

\* a loop that reaches the last transport of the list
Last(conns) == conns[Len(conns)]

\* the transport of the first turn of `for conn in self.connections` (line
\* 153), the only turn there is: line 155 returns and lines 156-160 raise
Lead(conns) == conns[1]

\* Device.command, lines 151-154 and 162-167: the first turn of the loop over
\* the transports writes to the first one; with no transport the loop body
\* never runs and the error is logged.  A closed socket or port raises
\* OSError (SerialException) on use.
CommandWrite(th, werrs) ==
    LET i == cur[th] IN
    /\ pc[th] = "write"
    /\ IF connections = <<>>
       THEN /\ inv' = [inv EXCEPT ![i].logged = TRUE, ![i].raw = None]
            /\ pc' = [pc EXCEPT ![th] = "fin"]
       ELSE LET conn == Lead(connections) IN
            \E res \in (IF closes[conn] > 0 THEN {"OSError"}
                        ELSE {"ok"} \cup werrs) :
                 /\ inv' = [inv EXCEPT ![i].conn = conn,
                                       ![i].wrote =
                                           Append(@, inv[i].command),
                                       ![i].err = IF res = "ok" THEN @
                                                  ELSE res,
                                       ![i].val = IF res = "ok" THEN @
                                                  ELSE Raise(res)]
                 /\ pc' = [pc EXCEPT ![th] = IF res = "ok" THEN "read"
                                             ELSE AfterError(res)]
    /\ UNCHANGED <<connections, added, closes, lock, queue, shutdown, ncalls,
                   ncloses, cur, it, snap>>

\* Device.command, line 155: conn.read(returns) on the transport written to
CommandRead(th, raws) ==
    LET i == cur[th]
        conn == inv[i].conn
    IN
    /\ pc[th] = "read"
    /\ \E res \in (IF closes[conn] > 0 THEN {<<"OSError">>}
                   ELSE {<<"ok", x>> : x \in raws}
                        \cup {<<e>> : e \in ReadErrors}) :
         /\ inv' = [inv EXCEPT ![i].reads = Append(@, ReadWait(inv[i])),
                               ![i].err = IF res[1] = "ok" THEN @
                                          ELSE res[1],
                               ![i].raw = IF res[1] = "ok" THEN PyStr(res[2])
                                          ELSE @,
                               ![i].val = IF res[1] = "ok" THEN @
                                          ELSE Raise(res[1])]
         /\ pc' = [pc EXCEPT ![th] = IF res[1] = "ok" THEN "fin"
                                     ELSE AfterError(res[1])]
    /\ UNCHANGED <<connections, added, closes, lock, queue, shutdown, ncalls,
                   ncloses, cur, it, snap>>

\* Device.command, line 158: conn.close() in the handler
HandlerClose(th) ==
    LET conn == inv[cur[th]].conn IN
    /\ pc[th] = "hclose"
    /\ closes' = [closes EXCEPT ![conn] = @ + 1]
    /\ pc' = [pc EXCEPT ![th] = "hremove"]
    /\ UNCHANGED <<connections, added, lock, queue, shutdown, inv, ncalls,
                   ncloses, cur, it, snap>>

\* Device.command, lines 159-160: self.connections.remove(conn), then raise
\* (list.remove raises ValueError when conn is not in the list)
HandlerRemove(th) ==
    LET i == cur[th]
        conn == inv[i].conn
    IN
    /\ pc[th] = "hremove"
    /\ connections' = Remove(connections, conn)
    /\ inv' = [inv EXCEPT ![i].val = IF InList(connections, conn) THEN @
                                     ELSE Raise("ValueError")]
    /\ pc' = [pc EXCEPT ![th] = "unwind"]
    /\ UNCHANGED <<added, closes, lock, queue, shutdown, ncalls, ncloses,
                   cur, it, snap>>

\* a lock released only when the block ends without an exception
ReleaseOnSuccess(th, v) == IF IsRaise(v) THEN th ELSE "none"

\* a lock that a task keeps until its future is set
ReleaseByCaller(th, v) == IF th \in Workers THEN th ELSE "none"

\* the holder of the lock once thread th has left the `with` block (lines
\* 249 and 255) with the value or the exception v: nobody
Release(th, v) == "none"

\* leaving the `with` block (lines 249-252, 255-256) with result v: the lock
\* is released; a synchronous call returns or raises to its caller, a task
\* hands v to the pool, which stores it in the future
Leave(th, v) ==
    LET i == cur[th] IN
    /\ lock' = Release(th, v)
    /\ IF th \in Workers
       THEN /\ inv' = [inv EXCEPT ![i].val = v]
            /\ pc' = [pc EXCEPT ![th] = "setres"]
       ELSE /\ inv' = [inv EXCEPT ![i].val = v,
                                  ![i].st = IF IsRaise(v) THEN "raised"
                                            ELSE "returned"]
            /\ pc' = [pc EXCEPT ![th] = "ret"]
    /\ UNCHANGED <<connections, added, closes, queue, shutdown, ncalls,
                   ncloses, cur, it, snap>>

\* lines 250-252 and 256: the formatter applied to what command returned
Finish(th) ==
    LET r == inv[cur[th]] IN
    /\ pc[th] = "fin"
    /\ Leave(th, Formatter(SelectFormatter(r.format, r.response, r.callback),
                           r.raw))

\* an exception raised in command leaves the `with` block
Unwind(th) ==
    /\ pc[th] = "unwind"
    /\ Leave(th, inv[cur[th]].val)

\* the pool stores the task's result or exception in the future and calls the
\* done-callbacks registered so far, on the worker
SetResult(w) ==
    LET i == cur[w]
        r == [inv[i] EXCEPT !.st = IF IsRaise(inv[i].val) THEN "raised"
                                   ELSE "returned"]
    IN
    /\ pc[w] = "setres"
    /\ inv' = [inv EXCEPT ![i] = IF r.registered THEN RunDoneCallback(r, w)
                                 ELSE r]
    /\ pc' = [pc EXCEPT ![w] = "idle"]
    /\ cur' = [cur EXCEPT ![w] = 0]
    /\ UNCHANGED <<connections, added, closes, lock, queue, shutdown, ncalls,
                   ncloses, it, snap>>

\* a shutdown that cancels nothing (cancel_futures=False)
CancelledNone(th) == inv

\* shutdown(wait=False, cancel_futures=True) (line 170): every task still in
\* the queue is cancelled; a cancelled future calls its done-callbacks on the
\* cancelling thread, where fut.result() raises CancelledError
Cancelled(th) ==
    [i \in 1..MaxCalls |->
        IF InList(queue, i)
        THEN RunDoneCallback([inv[i] EXCEPT !.st = "cancelled"], th)
        ELSE inv[i]]

\* Device.close, line 170, entered directly or from __exit__ (lines 131-134)
Close(th) ==
    /\ pc[th] = "idle"
    /\ ncloses < MaxCloses
    /\ ncloses' = ncloses + 1
    /\ shutdown' = TRUE
    /\ inv' = Cancelled(th)
    /\ queue' = <<>>
    /\ it' = [it EXCEPT ![th] = 0]
    /\ snap' = [snap EXCEPT ![th] =
                   {connections[k] : k \in 1..Len(connections)}]
    /\ pc' = [pc EXCEPT ![th] = "close"]
    /\ UNCHANGED <<connections, added, closes, lock, ncalls, cur>>

\* Device.close, lines 171-172: one turn of `for conn in self.connections`;
\* the list iterator keeps an index into the live list
CloseNext(th) ==
    /\ pc[th] = "close"
    /\ it[th] < Len(connections)
    /\ closes' = [closes EXCEPT ![connections[it[th] + 1]] = @ + 1]
    /\ it' = [it EXCEPT ![th] = @ + 1]
    /\ UNCHANGED <<connections, added, lock, queue, shutdown, inv, ncalls,
                   ncloses, pc, cur, snap>>

\* the iterator is exhausted: close returns
CloseReturn(th) ==
    /\ pc[th] = "close"
    /\ it[th] >= Len(connections)
    /\ pc' = [pc EXCEPT ![th] = "closed"]
    /\ UNCHANGED <<connections, added, closes, lock, queue, shutdown, inv,
                   ncalls, ncloses, cur, it, snap>>

\* the caller goes on after close returned
AfterClose(th) ==
    /\ pc[th] = "closed"
    /\ pc' = [pc EXCEPT ![th] = "idle"]
    /\ it' = [it EXCEPT ![th] = 0]
    /\ snap' = [snap EXCEPT ![th] = {}]
    /\ UNCHANGED <<connections, added, closes, lock, queue, shutdown, inv,
                   ncalls, ncloses, cur>>

\* what is left of an invocation nobody refers to any more
Gone == [NoInv EXCEPT !.st = "gone"]

\* __call__ has returned or raised (line 250, or the submit of line 244
\* raising): the caller goes on and drops the value or the exception
Return(th) ==
    /\ pc[th] = "ret"
    /\ inv' = [inv EXCEPT ![cur[th]] = Gone]
    /\ cur' = [cur EXCEPT ![th] = 0]
    /\ pc' = [pc EXCEPT ![th] = "idle"]
    /\ UNCHANGED <<connections, added, closes, lock, queue, shutdown, ncalls,
                   ncloses, it, snap>>

\* the caller drops the future of line 247 once it is done
Discard(i) ==
    /\ IsAsync(i)
    /\ FutureDone(inv[i])
    /\ \A th \in Threads : cur[th] # i
    /\ inv' = [inv EXCEPT ![i] = Gone]
    /\ UNCHANGED <<connections, added, closes, lock, queue, shutdown, ncalls,
                   ncloses, pc, cur, it, snap>>

(***************************************************************************)
(* The CommandBuilder (lines 336-356) and the Device's attribute and index *)
(* access that creates one (lines 214-221).                                *)
(***************************************************************************)
\* bounds: builders that exist at once, and step operations asked of one
MaxBuilders == 2
MaxSteps == 2

\* attribute names used in step operations: a plain one, the name of a method
\* of the builder, and one that holds a double underscore
AttrNames == {<<"s", "e", "t">>, <<"d", "u", "p">>, <<"a", "_", "_", "b">>}

\* values used as an index in step operations
ItemValues == {IntTok(12), TextTok(<<"v">>)}

\* call-time arguments of an invocation of a builder
CallArgs == {<<>>, <<IntTok(5)>>, <<TextTok(<<"o", "n">>), IntTok(-3)>>}

\* '__' in name (lines 215 and 342)
HasDunder(name) ==
    \E k \in 1..(Len(name) - 1) : name[k] = "_" /\ name[k + 1] = "_"

\* the names without a double underscore in object.__dir__ of a
\* CommandBuilder: its instance attributes and its method (lines 338-339, 355)
BuilderDir ==
    {<<"d", "e", "v", "i", "c", "e">>, <<"c", "o", "m", "m", "a", "n", "d">>,
     <<"d", "u", "p">>}

\* among the names of the model, those in object.__dir__ of a Device
\* (lines 99-333: its attributes, methods and properties, e.g. close)
DeviceDir ==
    {<<"c", "l", "o", "s", "e">>, <<"c", "o", "m", "m", "a", "n", "d">>,
     <<"s", "e", "r", "i", "a", "l">>}

VARIABLES
    udp_socket,    \* discover: the probe socket: "none", "open" or "closed"
    timeout,       \* discover: its timeout argument, in clock ticks
    clock,         \* discover: the time
    start_time,    \* discover: the local start_time
    devices,       \* discover: the local list devices
    at,            \* discover: where the call is
    recvAt,        \* discover: when the recvfrom in progress was called
    inbox,         \* discover: source addresses of the replies not yet read
    nsent,         \* discover: replies the responders have sent
    got,           \* discover: source address and time of each reply read
    opened         \* discover: when the current or last window was opened

kvars == <<udp_socket, timeout, clock, start_time, devices, at, recvAt, inbox,
           nsent, got, opened>>

VARIABLES
    serial_dict,   \* serial setter: its argument
    _serial,       \* serial setter and getter: the local _serial, 48 bits
    eeprom,        \* the instrument's memory, a byte per address
    loop_i,        \* serial setter: the loop variable i
    serial,        \* what the getter returned
    sat            \* serial: where the call is

svars == <<serial_dict, _serial, eeprom, loop_i, serial, sat>>

VARIABLES
    auto_x,        \* process_auto: its argument, a response text
    auto_result,   \* process_auto: what it returned
    aat            \* process_auto: "given" before the call, "classified" after

avars == <<auto_x, auto_result, aat>>

VARIABLES
    wait,          \* SocketConnection.read: its argument
    retval,        \* SocketConnection.read: the local retval
    rat,           \* SocketConnection.read: where the call is
    peer,          \* the other end of the socket: "open" or "closed"
    nrecv,         \* the calls of recv made
    recvd          \* what the last recv did: "data", "timeout", "eos", "error"

rvars == <<wait, retval, rat, peer, nrecv, recvd>>

\* the variables of the parts that follow the CommandBuilder
xvars == <<kvars, svars, avars, rvars>>

VARIABLES
    builders,      \* the CommandBuilder objects: `command` refers to a list
    lists,         \* the list objects the builders' `command` refer to
    res,           \* the last builder operation and what it returned
    bcall          \* per invocation made through a builder, what was asked

bvars == <<builders, lists, res, bcall>>

\* a builder: command is the list object it refers to (0: none); asked is
\* the history of the step operations asked of it (and, up to the dup, of the
\* builder dupOf it was duplicated from), each [via, tok]
NoBuilder == [live |-> FALSE, command |-> 0, asked |-> <<>>, dupOf |-> 0]
NoRes == [op |-> "none", on |-> 0, via |-> "none", kind |-> "none", id |-> 0]
NoCall == [b |-> 0, asked |-> <<>>, cargs |-> <<>>]

BuilderInit ==
    /\ builders = [b \in 1..MaxBuilders |-> NoBuilder]
    /\ lists = [l \in 1..MaxBuilders |-> <<>>]
    /\ res = NoRes
    /\ bcall = [i \in 1..MaxCalls |-> NoCall]

\* the builder object created next; the list object created with it has the
\* same number
Fresh(b) ==
    /\ ~builders[b].live
    /\ \A c \in 1..(b - 1) : builders[c].live

\* the tokens of builder b: the content of the list its command refers to
Tokens(b) == lists[builders[b].command]

\* CommandBuilder.__init__ (lines 337-339) called with a new list of one
\* token (lines 218 and 221: [x])
NewBuilder(b, via, tok) ==
    /\ Fresh(b)
    /\ lists' = [lists EXCEPT ![b] = <<tok>>]
    /\ builders' = [builders EXCEPT ![b] =
                       [live |-> TRUE, command |-> b,
                        asked |-> <<[via |-> via, tok |-> tok]>>,
                        dupOf |-> 0]]
    /\ res' = [op |-> "device", on |-> 0, via |-> via, kind |-> "builder",
               id |-> b]

\* Device.__getattribute__ (lines 214-218)
DeviceGetattr(b, name) ==
    /\ pc["c1"] = "idle"
    /\ IF HasDunder(name) \/ name \in DeviceDir
       THEN /\ res' = [op |-> "device", on |-> 0, via |-> "attr",
                       kind |-> "attribute", id |-> 0]
            /\ b = 1
            /\ UNCHANGED <<builders, lists>>
       ELSE NewBuilder(b, "attr", TextTok(name))
    /\ UNCHANGED <<bcall, dvars, xvars>>

\* Device.__getitem__ (lines 220-221)
DeviceGetitem(b, x) ==
    /\ pc["c1"] = "idle"
    /\ NewBuilder(b, "item", x)
    /\ UNCHANGED <<bcall, dvars, xvars>>

\* self.command.append(...) (lines 345 and 349)
BuilderAppend(command, tok) == Append(command, tok)

\* a step operation on builder b changes the list its command refers to into
\* command and returns what res says
Step(b, via, tok, command, kind) ==
    /\ pc["c1"] = "idle"
    /\ builders[b].live
    /\ Len(builders[b].asked) < MaxSteps
    /\ lists' = [lists EXCEPT ![builders[b].command] = command]
    /\ builders' = [builders EXCEPT
                       ![b].asked = Append(@, [via |-> via, tok |-> tok])]
    /\ res' = [op |-> "step", on |-> b, via |-> via, kind |-> kind,
               id |-> IF kind = "builder" THEN b ELSE 0]
    /\ UNCHANGED <<bcall, dvars, xvars>>

\* CommandBuilder.__getattribute__ (lines 341-346)
BuilderGetattr(b, name) ==
    IF HasDunder(name) \/ name \in BuilderDir
    THEN Step(b, "attr", TextTok(name), Tokens(b), "attribute")
    ELSE Step(b, "attr", TextTok(name),
              BuilderAppend(Tokens(b), TextTok(name)), "builder")

\* CommandBuilder.__getitem__ (lines 348-350)
BuilderGetitem(b, value) ==
    Step(b, "item", value, BuilderAppend(Tokens(b), value), "builder")
\* call-time arguments put before the tokens of the builder
ArgsFirst(command, args) == args \o command

\* the positional arguments of line 353: *self.command, *args
BuilderArgs(command, args) == command \o args

\* CommandBuilder.__call__ (lines 352-353): the Device is invoked, here
\* synchronously, with the keyword arguments format and response
BuilderCall(b, args, format, response, maxcalls) ==
    /\ builders[b].live
    /\ Call("c1", BuilderArgs(Tokens(b), args), format, response,
            FALSE, FALSE, maxcalls)
    /\ bcall' = [bcall EXCEPT ![ncalls + 1] =
                    [b |-> b, asked |-> builders[b].asked, cargs |-> args]]
    /\ res' = [op |-> "call", on |-> b, via |-> "none", kind |-> "none",
               id |-> 0]
    /\ UNCHANGED <<builders, lists, xvars>>

\* a dup that hands the builder's own list to the new builder
DupShared(own, new) == own

\* the list object the duplicate refers to: list(self.command) (line 356) is
\* a new list object, not the builder's own
DupList(own, new) == new

\* CommandBuilder.dup (lines 355-356): list(self.command) copies the tokens
\* into a new list object
dup(b, c) ==
    /\ pc["c1"] = "idle"
    /\ builders[b].live
    /\ Fresh(c)
    /\ lists' = [lists EXCEPT ![c] = Tokens(b)]
    /\ builders' = [builders EXCEPT ![c] =
                       [live |-> TRUE,
                        command |-> DupList(builders[b].command, c),
                        asked |-> builders[b].asked,
                        dupOf |-> b]]
    /\ res' = [op |-> "dup", on |-> b, via |-> "none", kind |-> "builder",
               id |-> c]
    /\ UNCHANGED <<bcall, dvars, xvars>>

(***************************************************************************)
(* Device.discover (lines 266-291), with time counted in clock ticks.       *)
(***************************************************************************)
\* bounds: the time the model follows, and the replies the responders send
MaxTime == 6
MaxReplies == 2

\* values of the timeout argument (line 267), in ticks
Timeouts == {1, 2}

\* the addresses of the responders
Addrs == {"ip1", "ip2"}

\* the TCP port of the Devices returned (line 285)
DevicePort == 8888

\* the state before discover is called with a timeout among T
DiscoverInit(T) ==
    /\ udp_socket = "none"
    /\ timeout \in T
    /\ clock = 0
    /\ start_time = 0
    /\ devices = <<>>
    /\ at = "idle"
    /\ recvAt = 0
    /\ inbox = <<>>
    /\ nsent = 0
    /\ got = <<>>
    /\ opened = 0

\* time passes; a recvfrom in progress returns as soon as a datagram is there
\* and no later than its timeout (line 274)
Tick ==
    /\ at \notin {"idle", "done", "raised"}
    /\ clock < MaxTime
    /\ ~(at = "recvfrom" /\ (inbox # <<>> \/ clock >= recvAt + timeout))
    /\ clock' = clock + 1
    /\ UNCHANGED <<udp_socket, timeout, start_time, devices, at, recvAt,
                   inbox, nsent, got, opened>>

\* a responder's reply to the probe reaches the socket
Reply(a) ==
    /\ at \in {"try", "loop", "recvfrom", "restart", "append"}
    /\ nsent < MaxReplies
    /\ nsent' = nsent + 1
    /\ inbox' = Append(inbox, a)
    /\ UNCHANGED <<udp_socket, timeout, clock, start_time, devices, at,
                   recvAt, got, opened>>

\* lines 268-271: socket.socket(...)
Socket ==
    /\ at = "idle"
    /\ udp_socket' = "open"
    /\ at' = "bind"
    /\ UNCHANGED <<timeout, clock, start_time, devices, recvAt, inbox, nsent,
                   got, opened>>

\* an exception leaves discover from a line outside the try statement
\* (lines 272-276): nothing closes the socket
RaiseOutside ==
    /\ at' = "raised"
    /\ UNCHANGED <<udp_socket, timeout, clock, start_time, devices, recvAt,
                   inbox, nsent, got, opened>>

\* an exception other than socket.timeout leaves the try statement through
\* its finally clause (lines 288-289), which closes the socket
RaiseInside ==
    /\ udp_socket' = "closed"
    /\ at' = "raised"
    /\ UNCHANGED <<timeout, clock, start_time, devices, recvAt, inbox, nsent,
                   got, opened>>

\* lines 272-274: bind to a random local port, which raises OSError when the
\* port is in use; setsockopt, settimeout
Bind(ok) ==
    /\ at = "bind"
    /\ IF ok
       THEN /\ at' = "sendto"
            /\ UNCHANGED <<udp_socket, timeout, clock, start_time, devices,
                           recvAt, inbox, nsent, got, opened>>
       ELSE RaiseOutside

\* lines 275-276: the probe is sent (OSError when the network is unreachable)
Sendto(ok) ==
    /\ at = "sendto"
    /\ IF ok
       THEN /\ at' = "try"
            /\ UNCHANGED <<udp_socket, timeout, clock, start_time, devices,
                           recvAt, inbox, nsent, got, opened>>
       ELSE RaiseOutside

\* line 278: start_time = time.time()
Try ==
    /\ at = "try"
    /\ start_time' = clock
    /\ opened' = clock
    /\ at' = "loop"
    /\ UNCHANGED <<udp_socket, timeout, clock, devices, recvAt, inbox, nsent,
                   got>>

\* the finally clause and the return (lines 288-290)
Finally ==
    /\ udp_socket' = "closed"
    /\ at' = "done"

\* lines 279-282: the window has run out and the loop is left, or recvfrom is
\* called
Loop ==
    /\ at = "loop"
    /\ IF clock > start_time + timeout
       THEN /\ Finally
            /\ UNCHANGED recvAt
       ELSE /\ at' = "recvfrom"
            /\ recvAt' = clock
            /\ UNCHANGED udp_socket
    /\ UNCHANGED <<timeout, clock, start_time, devices, inbox, nsent, got,
                   opened>>

\* line 282: recvfrom returns the oldest datagram waiting
Recvfrom ==
    /\ at = "recvfrom"
    /\ inbox # <<>>
    /\ got' = Append(got, [addr |-> Head(inbox), time |-> clock])
    /\ inbox' = Tail(inbox)
    /\ at' = "restart"
    /\ UNCHANGED <<udp_socket, timeout, clock, start_time, devices, recvAt,
                   nsent, opened>>

\* line 282 raises socket.timeout, caught at lines 286-287
RecvTimeout ==
    /\ at = "recvfrom"
    /\ inbox = <<>>
    /\ clock >= recvAt + timeout
    /\ Finally
    /\ UNCHANGED <<timeout, clock, start_time, devices, recvAt, inbox, nsent,
                   got, opened>>

\* line 282 raises another OSError
RecvError ==
    /\ at = "recvfrom"
    /\ RaiseInside

\* a window that is never restarted
NoRestart(start, now) == start

\* lines 283-284: an address of a datagram is never empty, so the window is
\* restarted
Restart(start, now) == now

RestartWindow ==
    /\ at = "restart"
    /\ start_time' = Restart(start_time, clock)
    /\ at' = "append"
    /\ UNCHANGED <<udp_socket, timeout, clock, devices, recvAt, inbox, nsent,
                   got, opened>>

\* line 285: a Device for the source address of the reply is appended; its
\* SocketConnection connects (line 378) and may raise, e.g.
\* ConnectionRefusedError
AppendDevice(ok) ==
    /\ at = "append"
    /\ IF ok
       THEN /\ devices' = Append(devices,
                                 [addr |-> got[Len(got)].addr,
                                  port |-> DevicePort])
            /\ at' = "loop"
            /\ UNCHANGED <<udp_socket, timeout, clock, start_time, recvAt,
                           inbox, nsent, got, opened>>
       ELSE RaiseInside

\* what discover leaves alone
restD == <<dvars, bvars, svars, avars, rvars>>

\* discover called once, with the responders and the clock
NextD ==
    \/ (Tick /\ UNCHANGED restD)
    \/ \E a \in Addrs : Reply(a) /\ UNCHANGED restD
    \/ (Socket /\ UNCHANGED restD)
    \/ \E ok \in BOOLEAN : Bind(ok) /\ UNCHANGED restD
    \/ \E ok \in BOOLEAN : Sendto(ok) /\ UNCHANGED restD
    \/ (Try /\ UNCHANGED restD)
    \/ (Loop /\ UNCHANGED restD)
    \/ (Recvfrom /\ UNCHANGED restD)
    \/ (RecvTimeout /\ UNCHANGED restD)
    \/ (RecvError /\ UNCHANGED restD)
    \/ (RestartWindow /\ UNCHANGED restD)
    \/ \E ok \in BOOLEAN : AppendDevice(ok) /\ UNCHANGED restD

(***************************************************************************)
(* Device.serial (lines 174-212): the packed 48-bit serial number.  A value *)
(* of 48 bits is a sequence of bits, the least significant first.           *)
(***************************************************************************)
\* the width of _serial (line 200: 0x000000000000) and of a byte
SerialWidth == 48
ByteWidth == 8

\* the address of the least significant byte (line 208)
EepromTop == 16383

\* the bits of a natural number below 2^30
Bits(n) ==
    [k \in 1..SerialWidth |-> IF k > 30 THEN 0 ELSE (n \div 2^(k - 1)) % 2]

\* the number whose bits these are, when it is below 2^30
RECURSIVE ValFrom(_, _)
ValFrom(a, k) ==
    IF k > 30 THEN 0 ELSE a[k] * 2^(k - 1) + ValFrom(a, k + 1)

Val(a) == ValFrom(a, 1)

HexDigits ==
    <<"0", "1", "2", "3", "4", "5", "6", "7", "8", "9", "A", "B", "C", "D",
      "E", "F">>

HexVal(c) == (CHOOSE v \in 1..16 : HexDigits[v] = c) - 1

\* the bits of a literal of twelve hexadecimal digits
HexBits(h) ==
    [k \in 1..SerialWidth |->
        (HexVal(h[12 - ((k - 1) \div 4)]) \div 2^((k - 1) % 4)) % 2]

\* a & b, a | b, a << n, a >> n
BitAnd(a, b) == [k \in 1..SerialWidth |-> a[k] * b[k]]
BitOr(a, b) == [k \in 1..SerialWidth |-> IF a[k] + b[k] > 0 THEN 1 ELSE 0]
Shl(a, n) == [k \in 1..SerialWidth |-> IF k <= n THEN 0 ELSE a[k - n]]
Shr(a, n) ==
    [k \in 1..SerialWidth |-> IF k + n > SerialWidth THEN 0 ELSE a[k + n]]

Fields == {"board_number", "week", "year", "model", "product"}

\* the masks of the setter (lines 201-205): 0xffff, 0x3f, 0xff, 0xff, 0x3ff
SetterMask(f) ==
    CASE f = "board_number" -> 65535
      [] f = "week" -> 63
      [] f = "year" -> 255
      [] f = "model" -> 255
      [] f = "product" -> 1023

\* a setter that gives every field whole bytes
SetterShiftBytes(f) ==
    CASE f = "board_number" -> 0
      [] f = "week" -> 16
      [] f = "year" -> 24
      [] f = "model" -> 32
      [] f = "product" -> 40

\* the shifts of the setter (lines 201-205)
SetterShift(f) ==
    CASE f = "board_number" -> 0
      [] f = "week" -> 16
      [] f = "year" -> 22
      [] f = "model" -> 30
      [] f = "product" -> 38

\* the masks of the getter (lines 179, 181, 183, 185, 187)
GetterMask(f) ==
    CASE f = "board_number" ->
            HexBits(<<"0", "0", "0", "0", "0", "0", "0", "0", "F", "F", "F", "F">>)
      [] f = "week" ->
            HexBits(<<"0", "0", "0", "0", "0", "0", "3", "F", "0", "0", "0", "0">>)
      [] f = "year" ->
            HexBits(<<"0", "0", "0", "0", "3", "F", "C", "0", "0", "0", "0", "0">>)
      [] f = "model" ->
            HexBits(<<"0", "0", "3", "F", "C", "0", "0", "0", "0", "0", "0", "0">>)
      [] f = "product" ->
            HexBits(<<"F", "F", "C", "0", "0", "0", "0", "0", "0", "0", "0", "0">>)

\* the shifts of the getter (lines 179-187)
GetterShift(f) ==
    CASE f = "board_number" -> 0
      [] f = "week" -> 16
      [] f = "year" -> 22
      [] f = "model" -> 30
      [] f = "product" -> 38

\* field values the setter is called with, each within its width
BoardNumbers == {0, 1, 43690, 65535}
Weeks == {0, 10, 63}
Years == {0, 24, 255}
Models == {2, 255}
Products == {0, 5, 1023}

SerialDicts ==
    [board_number : BoardNumbers, week : Weeks, year : Years,
     model : Models, product : Products]

NoSerial == [f \in Fields |-> 0]

Addresses == (EepromTop - 5)..EepromTop

\* the state before the setter is called with one of D
SerialInit(D) ==
    /\ serial_dict \in D
    /\ _serial = Bits(0)
    /\ eeprom = [a \in Addresses |-> 0]
    /\ loop_i = 0
    /\ serial = NoSerial
    /\ sat = "idle"

\* the setter, lines 200-205: the fields are masked, shifted and or-ed
Pack ==
    /\ sat = "idle"
    /\ LET part(f) == Shl(BitAnd(Bits(serial_dict[f]), Bits(SetterMask(f))),
                          SetterShift(f))
       IN _serial' = BitOr(BitOr(BitOr(BitOr(BitOr(Bits(0),
                        part("board_number")), part("week")), part("year")),
                        part("model")), part("product"))
    /\ loop_i' = 0
    /\ sat' = "for"
    /\ UNCHANGED <<serial_dict, eeprom, serial>>

\* the setter, lines 207-210: one turn of the loop writes the low byte to
\* address 16383-loop_i and shifts _serial right by eight
EepromSet ==
    /\ sat = "for"
    /\ loop_i < 6
    /\ eeprom' = [eeprom EXCEPT ![EepromTop - loop_i] =
                     Val(BitAnd(_serial, Bits(255)))]
    /\ _serial' = Shr(_serial, ByteWidth)
    /\ loop_i' = loop_i + 1
    /\ UNCHANGED <<serial_dict, serial, sat>>

\* the setter, line 212: return self.serial
LoopEnd ==
    /\ sat = "for"
    /\ loop_i = 6
    /\ sat' = "get"
    /\ UNCHANGED <<serial_dict, _serial, eeprom, loop_i, serial>>

\* the 48-bit value the instrument reports (line 176): its six bytes, the
\* least significant at address 16383
Reassembled(mem) ==
    [k \in 1..SerialWidth |->
        Bits(mem[EepromTop - ((k - 1) \div ByteWidth)])
            [((k - 1) % ByteWidth) + 1]]

\* the getter (lines 174-188)
Getter ==
    /\ sat = "get"
    /\ _serial' = Reassembled(eeprom)
    /\ serial' = [f \in Fields |->
                     Val(Shr(BitAnd(Reassembled(eeprom), GetterMask(f)),
                             GetterShift(f)))]
    /\ sat' = "done"
    /\ UNCHANGED <<serial_dict, eeprom, loop_i>>

\* what the serial setter and getter leave alone
restS == <<dvars, bvars, kvars, avars, rvars>>

\* the setter called once
NextS ==
    \/ (Pack /\ UNCHANGED restS)
    \/ (EepromSet /\ UNCHANGED restS)
    \/ (LoopEnd /\ UNCHANGED restS)
    \/ (Getter /\ UNCHANGED restS)

(***************************************************************************)
(* process_auto (lines 80-95) applied to response texts.                    *)
(***************************************************************************)
\* bound: the length of the text between the brackets
MaxBody == 7

\* the characters between the brackets
BodyChars == {"1", ",", ";"}

Bodies == UNION {[1..n -> BodyChars] : n \in 0..MaxBody}

\* what follows the closing bracket
Suffixes == {<<>>, <<"\n">>, <<" ", "x">>}

\* the response texts process_auto is applied to
AutoTexts == {<<"[">> \o b \o <<"]">> \o e : b \in Bodies, e \in Suffixes}

AutoInit(X) ==
    /\ auto_x \in X
    /\ auto_result = None
    /\ aat = "given"

\* process_auto(x) on a text
Classify ==
    /\ aat = "given"
    /\ auto_result' = process_auto(PyStr(auto_x))
    /\ aat' = "classified"
    /\ UNCHANGED auto_x

NextA == Classify /\ UNCHANGED <<dvars, bvars, kvars, svars, rvars>>

(***************************************************************************)
(* SocketConnection.read (lines 382-397) against a peer that sends chunks,  *)
(* stays idle, or closes the stream.                                        *)
(***************************************************************************)
\* bound: the calls of recv the model follows
MaxRecvs == 4

\* the texts a recv may return
Chunks == {<<"1">>, <<"5", "\n">>}

ReadInit(W) ==
    /\ wait \in W
    /\ retval = <<>>
    /\ rat = "idle"
    /\ peer = "open"
    /\ nrecv = 0
    /\ recvd = "none"

\* the peer closes the stream; from then on recv returns at once, with what
\* is still buffered and then with zero bytes
PeerClose ==
    /\ peer = "open"
    /\ rat # "idle"
    /\ peer' = "closed"
    /\ UNCHANGED <<wait, retval, rat, nrecv, recvd>>

\* lines 383-384: retval = ""; if wait
ReadStart ==
    /\ rat = "idle"
    /\ rat' = IF wait THEN "while_empty" ELSE "while_true"
    /\ UNCHANGED <<wait, retval, peer, nrecv, recvd>>

\* what self.socket.recv(576) does (lines 387 and 393): it returns a chunk,
\* raises socket.timeout when an open peer sent nothing in time, returns
\* zero bytes at the end of the stream, or raises another error
RecvOutcomes ==
    {<<"data", c>> : c \in IF recvd = "eos" THEN {} ELSE Chunks}
        \cup (IF peer = "open" THEN {<<"timeout", <<>>>>}
              ELSE {<<"eos", <<>>>>})
        \cup (IF peer = "open" THEN {<<"error", <<>>>>} ELSE {})

\* lines 385-389: one turn of `while retval == ""`
WhileEmpty ==
    /\ rat = "while_empty"
    /\ IF retval # <<>>
       THEN /\ rat' = "while_true"
            /\ UNCHANGED <<retval, nrecv, recvd>>
       ELSE /\ nrecv < MaxRecvs
            /\ \E o \in RecvOutcomes :
                  /\ nrecv' = nrecv + 1
                  /\ recvd' = o[1]
                  /\ retval' = retval \o o[2]
                  /\ rat' = IF o[1] = "error" THEN "raised" ELSE rat
    /\ UNCHANGED <<wait, peer>>

\* lines 391-395: one turn of `while True`, left only by socket.timeout
WhileTrue ==
    /\ rat = "while_true"
    /\ nrecv < MaxRecvs
    /\ \E o \in RecvOutcomes :
          /\ nrecv' = nrecv + 1
          /\ recvd' = o[1]
          /\ retval' = retval \o o[2]
          /\ rat' = CASE o[1] = "error" -> "raised"
                      [] o[1] = "timeout" -> "returned"
                      [] OTHER -> rat
    /\ UNCHANGED <<wait, peer>>

restR == <<dvars, bvars, kvars, svars, avars>>

\* one call of read
NextR ==
    \/ (PeerClose /\ UNCHANGED restR)
    \/ (ReadStart /\ UNCHANGED restR)
    \/ (WhileEmpty /\ UNCHANGED restR)
    \/ (WhileTrue /\ UNCHANGED restR)

vars == <<dvars, bvars, xvars>>

\* the other parts at rest
XInit ==
    /\ DiscoverInit({1})
    /\ SerialInit({[board_number |-> 1, week |-> 10, year |-> 24,
                     model |-> 2, product |-> 5]})
    /\ AutoInit({<<"[", "1", "]">>})
    /\ ReadInit({TRUE})

Init == DeviceInit /\ BuilderInit /\ XInit

InitD ==
    /\ DeviceInit /\ BuilderInit
    /\ DiscoverInit(Timeouts)
    /\ SerialInit({NoSerial})
    /\ AutoInit({<<>>})
    /\ ReadInit({TRUE})

SpecD == InitD /\ [][NextD]_vars

InitS ==
    /\ DeviceInit /\ BuilderInit
    /\ DiscoverInit({1})
    /\ SerialInit(SerialDicts)
    /\ AutoInit({<<>>})
    /\ ReadInit({TRUE})

SpecS == InitS /\ [][NextS]_vars

InitA ==
    /\ DeviceInit /\ BuilderInit
    /\ DiscoverInit({1})
    /\ SerialInit({NoSerial})
    /\ AutoInit(AutoTexts)
    /\ ReadInit({TRUE})

SpecA == InitA /\ [][NextA]_vars

InitR ==
    /\ DeviceInit /\ BuilderInit
    /\ DiscoverInit({1})
    /\ SerialInit({NoSerial})
    /\ AutoInit({<<>>})
    /\ ReadInit(BOOLEAN)

SpecR == InitR /\ [][NextR]_vars

\* idle callers are interchangeable (an idle thread holds nothing of the
\* Device), so the first idle one is the one that makes the next call
FirstIdle(th) ==
    \A k \in 1..Len(CallerOrder) :
        \/ pc[CallerOrder[k]] # "idle"
        \/ \E j \in 1..k : CallerOrder[j] = th

\* the Device used by the threads C, with the pool workers W, invoked at most
\* N times with the formats F and options O, over transports whose write may
\* raise WE and whose read may return RR
Sys(C, W, F, O, WE, RR, N) ==
    \/ \E th \in C, t \in Transports :
          FirstIdle(th) /\ add_connection(th, t) /\ UNCHANGED <<bvars, xvars>>
    \/ \E th \in C, c \in Commands, f \in F, o \in O :
          /\ FirstIdle(th)
          /\ Call(th, c, f, o.response, o.callback, o.spawn, N)
          /\ UNCHANGED <<bvars, xvars>>
    \/ \E th \in C : AddDoneCallback(th) /\ UNCHANGED <<bvars, xvars>>
    \/ \E w \in W : Pickup(w) /\ UNCHANGED <<bvars, xvars>>
    \/ \E th \in C \cup W : Acquire(th) /\ UNCHANGED <<bvars, xvars>>
    \/ \E th \in C \cup W : CommandWrite(th, WE) /\ UNCHANGED <<bvars, xvars>>
    \/ \E th \in C \cup W : CommandRead(th, RR) /\ UNCHANGED <<bvars, xvars>>
    \/ \E th \in C \cup W : HandlerClose(th) /\ UNCHANGED <<bvars, xvars>>
    \/ \E th \in C \cup W : HandlerRemove(th) /\ UNCHANGED <<bvars, xvars>>
    \/ \E th \in C \cup W : Finish(th) /\ UNCHANGED <<bvars, xvars>>
    \/ \E th \in C \cup W : Unwind(th) /\ UNCHANGED <<bvars, xvars>>
    \/ \E w \in W : SetResult(w) /\ UNCHANGED <<bvars, xvars>>
    \/ \E th \in C : FirstIdle(th) /\ Close(th) /\ UNCHANGED <<bvars, xvars>>
    \/ \E th \in C : CloseNext(th) /\ UNCHANGED <<bvars, xvars>>
    \/ \E th \in C : CloseReturn(th) /\ UNCHANGED <<bvars, xvars>>
    \/ \E th \in C : AfterClose(th) /\ UNCHANGED <<bvars, xvars>>
    \/ \E th \in C : Return(th) /\ UNCHANGED <<bvars, xvars>>
    \/ \E i \in 1..MaxCalls : Discard(i) /\ UNCHANGED <<bvars, xvars>>

\* two invoking threads and two workers, invoked with format 'number' (which
\* returns a float, raises on text that is no number, and raises on None)
Next ==
    Sys(Callers, Workers, {"number"}, PathOptions, WriteErrors, RawResps,
        MaxCalls)

Spec == Init /\ [][Next]_vars

\* one invoking thread and one worker, and every format and option
MaxCallsF == 1

NextF ==
    Sys({"c1"}, {"w1"}, Formats, Options, WriteErrors, RawResps, MaxCallsF)

SpecF == Init /\ [][NextF]_vars

\* one thread that builds commands with CommandBuilders and invokes them on a
\* Device over a transport whose write does not fail
MaxCallsB == 1

NextB ==
    \/ \E b \in 1..MaxBuilders, name \in AttrNames \cup DeviceDir :
          DeviceGetattr(b, name)
    \/ \E b \in 1..MaxBuilders, x \in ItemValues : DeviceGetitem(b, x)
    \/ \E b \in 1..MaxBuilders, name \in AttrNames : BuilderGetattr(b, name)
    \/ \E b \in 1..MaxBuilders, x \in ItemValues : BuilderGetitem(b, x)
    \/ \E b \in 1..MaxBuilders, c \in 1..MaxBuilders : dup(b, c)
    \/ \E b \in 1..MaxBuilders, a \in CallArgs, r \in BOOLEAN :
          BuilderCall(b, a, "auto", r, MaxCallsB)
    \/ add_connection("c1", TransportOrder[1]) /\ UNCHANGED <<bvars, xvars>>
    \/ Acquire("c1") /\ UNCHANGED <<bvars, xvars>>
    \/ CommandWrite("c1", {}) /\ UNCHANGED <<bvars, xvars>>
    \/ CommandRead("c1", RawResps) /\ UNCHANGED <<bvars, xvars>>
    \/ HandlerClose("c1") /\ UNCHANGED <<bvars, xvars>>
    \/ HandlerRemove("c1") /\ UNCHANGED <<bvars, xvars>>
    \/ Finish("c1") /\ UNCHANGED <<bvars, xvars>>
    \/ Unwind("c1") /\ UNCHANGED <<bvars, xvars>>
    \/ Return("c1") /\ UNCHANGED <<bvars, xvars>>

SpecB == Init /\ [][NextB]_vars

(***************************************************************************)
(* Properties.                                                             *)
(***************************************************************************)
\* thread th is inside the write+read cycle of its command
InCycle(th) == pc[th] \in {"write", "read"}

\* invocation i performs a transport write or read in this step
DoesIO(i) ==
    \/ Len(inv'[i].wrote) > Len(inv[i].wrote)
    \/ Len(inv'[i].reads) > Len(inv[i].reads)

\* C1: at most one command is inside its write+read cycle at any instant, the
\* lock is held by it from before the write until after the read, and between
\* a command's write and its own read no other command writes or reads.
C1_MutualExclusion ==
    /\ [](/\ Cardinality({th \in Threads : InCycle(th)}) <= 1
          /\ \A th \in Threads : InCycle(th) => lock = th)
    /\ [][\A th \in Threads : pc[th] = "read" =>
             \A i \in 1..MaxCalls : DoesIO(i) => i = cur[th]]_vars

\* a synchronous caller is between its write and its read while a pool worker
\* waits for the lock
C1_Witness ==
    \E th \in Callers, w \in Workers : pc[th] = "read" /\ pc[w] = "acq"

\* C2: when an invocation ends with a connection-level error raised by its
\* transport, that transport was closed, is not in the list, the same error
\* is what the caller (or the future) gets, and the command was written once.
C2_FailureDiscardsTransport ==
    \A i \in 1..MaxCalls :
        (inv[i].st = "raised" /\ IsConnectionError(inv[i].err)) =>
            /\ closes[inv[i].conn] >= 1
            /\ ~InList(connections, inv[i].conn)
            /\ inv[i].val = Raise(inv[i].err)
            /\ Len(inv[i].wrote) = 1

\* a task's read failed with a connection error, now held by its future,
\* while another transport is left in the list
C2_Witness ==
    \E i \in 1..MaxCalls :
        /\ inv[i].st = "raised"
        /\ IsAsync(i)
        /\ IsConnectionError(inv[i].err)
        /\ Len(inv[i].reads) = 1
        /\ connections # <<>>

\* C3: an invocation that found no transport logs and does not raise, for
\* every format and with or without a response, and does no transport I/O.
C3_NoTransportNeverRaises ==
    \A i \in 1..MaxCalls :
        inv[i].logged =>
            /\ ~IsRaise(inv[i].val)
            /\ inv[i].wrote = <<>>
            /\ inv[i].reads = <<>>

\* C4: every transport error of the taxonomy (reset, broken, timeout) raised
\* by the write or the read discards the transport and is re-raised.
C4_EveryTransportErrorDiscards ==
    \A i \in 1..MaxCalls :
        (inv[i].st = "raised" /\ inv[i].err \in WriteErrors \cup ReadErrors) =>
            /\ closes[inv[i].conn] >= 1
            /\ ~InList(connections, inv[i].conn)
            /\ inv[i].val = Raise(inv[i].err)

\* C5: when close returns, every transport that was in the list when it was
\* called has been closed.
C5_CloseClosesAll ==
    \A th \in Threads :
        pc[th] = "closed" => \A t \in snap[th] : closes[t] >= 1

\* C6: close cancels every task not yet started, a cancelled task never
\* writes or reads, and close leaves the started tasks as they are.
C6_CloseCancelsPending ==
    /\ [](\A i \in 1..MaxCalls :
            /\ inv[i].st = "cancelled" =>
                  /\ inv[i].wrote = <<>>
                  /\ inv[i].reads = <<>>
                  /\ \A th \in Threads : cur[th] = i => pc[th] = "addcb"
            /\ (shutdown /\ inv[i].st = "pending") => FALSE)
    /\ [](shutdown => queue = <<>>)
    /\ [][\A i \in 1..MaxCalls :
             /\ inv[i].st = "cancelled" => inv'[i].st \in {"cancelled", "gone"}
             /\ (shutdown' /\ ~shutdown /\ inv[i].st = "pending")
                   => inv'[i].st = "cancelled"
             /\ (shutdown' /\ ~shutdown /\ inv[i].st = "running")
                   => /\ inv'[i] = inv[i]
                      /\ \A w \in Workers :
                            cur[w] = i => (pc'[w] = pc[w] /\ cur'[w] = i)]_vars

\* close has returned after cancelling a queued task, while a task that had
\* started is still inside its command
C6_Witness ==
    /\ \E th \in Callers : pc[th] = "closed"
    /\ \E i \in 1..MaxCalls : inv[i].st = "cancelled"
    /\ \E w \in Workers : pc[w] \in {"acq", "write", "read"}

\* C7: an asynchronous invocation performs the transport operations the
\* synchronous one performs for the same options: one write, then a read that
\* blocks only if a response is expected.
C7_AsyncSameAsSync ==
    \A i \in 1..MaxCalls :
        /\ Len(inv[i].wrote) <= 1
        /\ \A k \in 1..Len(inv[i].reads) : inv[i].reads[k] = inv[i].returns

\* C8: the user's callback is only ever run by a worker thread of the pool.
C8_CallbackOnWorker ==
    \A i \in 1..MaxCalls :
        \A k \in 1..Len(inv[i].cbBy) : inv[i].cbBy[k] \in Workers

\* the asynchronous invocation i was refused by the pool: it has no task
Refused(i) == \E th \in Threads : cur[th] = i /\ pc[th] = "ret"

\* what the task of invocation r hands to its future: the error its transport
\* raised, or the formatter's result on what it read
TaskOutcome(r) ==
    IF r.err # "none" THEN Raise(r.err)
    ELSE Formatter(SelectFormatter(r.format, r.response, r.callback), r.raw)

\* C9: the callback of an asynchronous invocation runs at most once, only
\* after the task has left its write+read cycle and completed with a result,
\* and with that result; once the task has completed with a result and the
\* callback was added, it has run exactly once; an error raised by the task
\* is what the future holds.
C9_CallbackOnceWithResult ==
    \A i \in 1..MaxCalls :
        inv[i].callback =>
            /\ Len(inv[i].cbBy) <= 1
            /\ inv[i].cbBy # <<>> =>
                  /\ inv[i].st = "returned"
                  /\ inv[i].cbArg = inv[i].val
                  /\ inv[i].val = TaskOutcome(inv[i])
                  /\ \A th \in Threads : cur[th] # i
            /\ (inv[i].st = "returned" /\ \A th \in Threads : cur[th] # i)
                  => Len(inv[i].cbBy) = 1
            /\ (inv[i].st = "raised" /\ ~Refused(i)) =>
                  /\ IsRaise(inv[i].val)
                  /\ inv[i].val = TaskOutcome(inv[i])

\* a callback has run with the float its task produced
C9_Witness ==
    \E i \in 1..MaxCalls :
        /\ inv[i].callback
        /\ Len(inv[i].cbBy) = 1
        /\ inv[i].cbArg.kind = "float"

\* a step operation that appends its token: one by index, or one by an
\* attribute name that has no double underscore and is no attribute of the
\* builder
Appending(step) ==
    \/ step.via = "item"
    \/ ~(HasDunder(step.tok.s) \/ step.tok.s \in BuilderDir)

\* the tokens a builder is expected to hold after the steps asked: the one it
\* was created with, then those of the appending steps, in the order asked
Kept(asked) == <<Head(asked).tok>> \o
    [k \in 1..Len(SelectSeq(Tail(asked), Appending)) |->
        SelectSeq(Tail(asked), Appending)[k].tok]

\* the tokens of every step asked, appending or not
Asked(asked) == [k \in 1..Len(asked) |-> asked[k].tok]

\* the text written by invocation i is the given tokens, each in its string
\* form, separated by single spaces
WrittenIs(i, tokens) ==
    /\ Len(inv[i].wrote) = 1
    /\ Split(inv[i].wrote[1], " ") = [k \in 1..Len(tokens) |-> Str(tokens[k])]

C11_DupIndependent ==
    /\ [](res.op = "dup" =>
            /\ res.id # res.on
            /\ Tokens(res.id) = Tokens(res.on))
    /\ [][\A b \in 1..MaxBuilders :
             (builders[b].live /\ builders'[b].asked = builders[b].asked)
                => (lists'[builders'[b].command] = Tokens(b))]_vars

\* a step was asked of a duplicate, whose tokens now differ from those of the
\* builder it was made from
C11_Witness ==
    \E b \in 1..MaxBuilders, c \in 1..MaxBuilders :
        /\ builders[c].live
        /\ builders[c].dupOf = b
        /\ Len(Tokens(c)) > Len(Tokens(b))
        /\ builders[b].asked # builders[c].asked

\* C12: whenever discover has been left, by return or by exception, after the
\* probe socket was created, the socket has been closed.
C12_ProbeSocketClosed ==
    (at \in {"done", "raised"} /\ udp_socket # "none") => udp_socket = "closed"

\* the start of the inactivity window that is running: the time the last
\* reply was read, or the time the first window was opened
WindowStart == IF got = <<>> THEN opened ELSE got[Len(got)].time

C14_SerialRoundTrip ==
    sat = "done" => serial = serial_dict

\* the round trip of the fields board_number 1, week 10, year 24, model 2,
\* product 5 has been made, through six bytes not all zero
C14_Witness ==
    /\ sat = "done"
    /\ serial_dict = [board_number |-> 1, week |-> 10, year |-> 24,
                      model |-> 2, product |-> 5]
    /\ eeprom[EepromTop] = 1
    /\ \E a \in Addresses : a # EepromTop /\ eeprom[a] # 0

\* a decimal number: the whole of z matches number_regex
IsNumber(z) == (Len(z) + 1) \in NumberEnds(z, {1})

\* the text without its optional trailing newline
Chomp(s) ==
    IF s # <<>> /\ s[Len(s)] = "\n" THEN SubSeq(s, 1, Len(s) - 1) ELSE s

\* the matrix grammar: apart from an optional trailing newline the whole text
\* is a bracketed list of rows separated by semicolons, each row two or more
\* decimal numbers separated by commas
MatrixGrammar(s) ==
    LET t == Chomp(s) IN
    /\ Len(t) >= 2
    /\ t[1] = "["
    /\ t[Len(t)] = "]"
    /\ LET rws == Split(SubSeq(t, 2, Len(t) - 1), ";") IN
       \A r \in 1..Len(rws) :
           LET fld == Split(rws[r], ",") IN
           /\ Len(fld) >= 2
           /\ \A k \in 1..Len(fld) : IsNumber(fld[k])

\* the text has characters after the closing bracket other than one newline
ExtraOutside(s) == LET t == Chomp(s) IN t = <<>> \/ t[Len(t)] # "]"

\* C15: auto returns a matrix exactly for the texts of the matrix grammar,
\* whatever the number of fields in a row, and never a matrix or an array for
\* a text with extra characters outside the brackets.
C15_MatrixIffGrammar ==
    aat = "classified" =>
        /\ (auto_result.kind = "matrix") <=> MatrixGrammar(auto_x)
        /\ ExtraOutside(auto_x) => auto_result.kind \notin {"matrix", "array"}

\* C16: no transport is closed more than once.
C16_ClosedAtMostOnce ==
    \A t \in Transports : closes[t] <= 1

\* C18: an invocation writes at most once; its write goes to the first
\* transport of the list at that moment and its read to the same transport,
\* still the first; the close of its failure handler closes that transport
\* and no other; the handler's removal takes the first transport off the
\* list and leaves the others in their order, so that the next one is the
\* lead; and no other step of a command changes the list or closes anything.
C18_OnlyLeadCarriesIO ==
    /\ [](\A n \in 1..MaxCalls : Len(inv[n].wrote) <= 1)
    /\ [][\A th \in Threads :
             LET n == cur[th] IN
             /\ (pc[th] = "write" /\ pc'[th] # "write"
                   /\ inv'[n].wrote # inv[n].wrote)
                   => (inv'[n].conn = Head(connections)
                       /\ connections' = connections /\ closes' = closes)
             /\ (pc[th] = "read" /\ pc'[th] # "read")
                   => (inv[n].conn = Head(connections)
                       /\ connections' = connections /\ closes' = closes)
             /\ (pc[th] = "hclose" /\ pc'[th] # "hclose")
                   => (connections' = connections
                       /\ \A t \in Transports :
                             t # inv[n].conn => closes'[t] = closes[t])
             /\ (pc[th] = "hremove" /\ pc'[th] # "hremove")
                   => (inv[n].conn = Head(connections)
                       /\ connections' = Tail(connections)
                       /\ closes' = closes)]_vars

\* the lead transport A was removed by a failure and a later command was
\* written to B, now the lead
C18_Witness ==
    /\ connections = <<"B">>
    /\ closes["A"] >= 1
    /\ closes["B"] = 0
    /\ \E n \in 1..MaxCalls : inv[n].conn = "B" /\ Len(inv[n].wrote) = 1

\* thread th is inside the `with` block of a command
InCommand(th) ==
    pc[th] \in {"write", "read", "hclose", "hremove", "fin", "unwind"}

\* C19: the lock is held only by a thread inside the `with` block of its
\* command, so when no command is executing the lock is free, in_progress is
\* false, and a thread waiting for the lock can take it.
C19_LockNeverLeftHeld ==
    /\ \A th \in Threads : lock = th => InCommand(th)
    /\ (\A th \in Threads : ~InCommand(th)) =>
          /\ lock = "none"
          /\ ~in_progress
          /\ \A th \in Threads : pc[th] = "acq" => ENABLED Acquire(th)

\* a command has ended with a parse error raised by its formatter, and no
\* command is executing
C19_Witness ==
    /\ \E n \in 1..MaxCalls :
          /\ inv[n].st = "raised"
          /\ inv[n].err = "none"
          /\ inv[n].val = Raise("ValueError")
    /\ \A th \in Threads : ~InCommand(th)
    /\ lock = "none"

\* C20: at the moment a completion callback runs, the thread that runs it
\* does not hold the lock and the task that triggered it has left its
\* command; the lock is free or held by another thread that is inside a
\* command.  A synchronous command issued by the callback therefore waits
\* for nothing but commands in flight.
C20_CallbackRunsUnlocked ==
    [][\A n \in 1..MaxCalls :
          Len(inv'[n].cbBy) > Len(inv[n].cbBy) =>
              LET th == inv'[n].cbBy[Len(inv'[n].cbBy)] IN
              /\ lock' # th
              /\ \A t \in Threads :
                    /\ (cur'[t] = n) => ~InCommand(t)'
                    /\ (lock' = t) => InCommand(t)']_vars

\* a callback has run while another thread held the lock for its command
C20_Witness ==
    /\ \E n \in 1..MaxCalls : Len(inv[n].cbBy) = 1
    /\ \E th \in Threads : lock = th /\ InCommand(th)

\* C17: in a socket read with wait=true that has received at least one
\* chunk, a recv that brings no further bytes, because the peer was idle for
\* the timeout or because it has closed the stream, ends the read, which
\* returns the accumulated text; the read goes on only while no data at all
\* has arrived.
C17_ReadEndsWhenNoMoreBytes ==
    [][(wait /\ nrecv' = nrecv + 1 /\ recvd' \in {"timeout", "eos"}
          /\ retval # <<>>)
          => (rat' = "returned" /\ retval' = retval)]_vars
=============================================================================
